---- MODULE Spec2Model ----
(***************************************************************************)
(* Model of src/index.js: the session registry (activeSessions), the log   *)
(* channel (sessionLogs and the WebSocket fan-out), the connection table   *)
(* (sessionConnections), the HTTP handlers /send, /stop and /status, the   *)
(* periodic sweep, and the per-session delivery engine of sendMessages     *)
(* (initial socket, reconnect, connection.update handler, delivery loop).  *)
(*                                                                         *)
(* Node.js runs every callback to its next await without interleaving, so  *)
(* each action below is one such run: a handler up to its first await, or  *)
(* the continuation of an await up to the next one.                        *)
(***************************************************************************)
EXTENDS Integers, Sequences, FiniteSets, TLC

\* ------------------------------------------------------------------ bounds
\* Session keys /send may draw (crypto.randomBytes, never repeated).
NumKeys == 2
\* Largest message queue a session of Spec is created with.
MaxMsgs == 2
\* Sockets makeWASocket may create over a run of Spec (initial socket and reconnects).
MaxSocks == 2
\* Sockets makeWASocket may create over a run of SpecHandles.
MaxHandles == 3
\* Queue length of the delivery scenario of SpecScenario.
ScenarioMsgs == 3
\* Clock steps of TickMs the model takes.
MaxTicks == 2
\* Observers (WebSocket clients) of the log channel.
NumClients == 2
\* broadcastLogs calls and subscribe messages a run of SpecLog makes.
MaxAppends == 3
MaxSubscribes == 2
\* Longest raw payload of SpecQueue.
MaxLen == 4
\* The cap of the log buffer. Line 59 caps it at 500; the model runs the same code
\* with a small cap, so that eviction happens within the other bounds.
LogCap == 2
\* The bound on reconnect attempts. Line 240 sets it to 15; the model runs the same
\* code with a small bound, so that exhaustion happens within the other bounds.
maxReconnectAttempts == 2

\* ------------------------------------------------------- program constants
RetentionMs == 3600000
StatusUnauthorized == 401
\* Any other status code of a disconnect (428: connection closed).
StatusOther == 428
\* The clock advances by the retention window, so that a session is seen at the
\* ages 0, exactly one hour and two hours.
TickMs == RetentionMs

Keys == 1..NumKeys
\* The session whose delivery engine Spec, SpecHandles and SpecScenario follow.
EngineKey == CHOOSE k \in Keys : \A j \in Keys : k <= j
\* A key no /send has ever returned (a request for an unknown session).
UnknownKey == CHOOSE k \in 0..NumKeys : k \notin Keys
Clients == 1..NumClients
\* ws.sessionKey of an observer that has not subscribed (undefined).
NoKey == -1

VARIABLES
    activeSessions,     \* Map key -> session record (line 16)
    sessionLogs,        \* Map key -> array of log lines (line 17)
    sessionConnections, \* Map key -> socket (line 18)
    wsClients,          \* wss.clients: per client readyState, sessionKey, frames received
    socks,              \* every socket makeWASocket returned, with its handler's loop
    eng,                \* per key: the closure of sendMessages (lines 222-375)
    now,                \* the clock read by new Date()
    res,                \* the last HTTP response: its status and the key it is about
    emitted,            \* the messages that callback passed to broadcastLogs
    stopped,            \* keys for which a /stop request has been processed
    dequeued,           \* per key: messages taken from the queue by the loops
    permClosed,         \* keys whose connection closed with status 401
    history,            \* per key: every message ever passed to broadcastLogs
    subMark,            \* per client: its subscribe messages, and the frames it had
                        \* received and the length of history at the last of them
    body,               \* /send: the uploaded file, a string
    hatersName,         \* /send: the prefix
    messages            \* /send: the queue built from body and hatersName

vars == <<activeSessions, sessionLogs, sessionConnections, wsClients, socks, eng, now,
          res, emitted, stopped, dequeued, permClosed, history, subMark, body, hatersName,
          messages>>

\* What the engine and the HTTP handlers never touch.
aux == <<history, subMark, body, hatersName, messages>>

\* ----------------------------------------------------------- Map helpers
Has(m, k) == k \in DOMAIN m
MapSet(m, k, v) == [x \in DOMAIN m \cup {k} |-> IF x = k THEN v ELSE m[x]]
MapDelete(m, k) == [x \in DOMAIN m \ {k} |-> m[x]]
EmptyMap == [x \in {} |-> 0]

\* --------------------------------------------------------- the log channel
\* A stored log line: `[${timestamp}] ${message}` (line 58).
LogLine(t, message) == <<t, message>>

broadcastLogsShiftNewest(logs, sessionKey, t, message) ==
    LET cur == IF Has(logs, sessionKey) THEN logs[sessionKey] ELSE <<>>
        pushed == Append(cur, LogLine(t, message))
    IN MapSet(logs, sessionKey,
              IF Len(pushed) > LogCap THEN SubSeq(pushed, 1, Len(pushed) - 1) ELSE pushed)

broadcastLogsNoShift(logs, sessionKey, t, message) ==
    LET cur == IF Has(logs, sessionKey) THEN logs[sessionKey] ELSE <<>>
    IN MapSet(logs, sessionKey, Append(cur, LogLine(t, message)))

\* broadcastLogs, lines 53-59: create the buffer if missing, push, shift when over the cap.
broadcastLogs(logs, sessionKey, t, message) ==
    LET cur == IF Has(logs, sessionKey) THEN logs[sessionKey] ELSE <<>>
        pushed == Append(cur, LogLine(t, message))
    IN MapSet(logs, sessionKey, IF Len(pushed) > LogCap THEN Tail(pushed) ELSE pushed)

fanOutFirstOnly(cl, sessionKey, message) ==
    LET hit == {c \in DOMAIN cl : cl[c].open /\ cl[c].sessionKey = sessionKey}
    IN [c \in DOMAIN cl |->
          IF c \in hit /\ \A d \in hit : c <= d
          THEN [cl[c] EXCEPT !.recv = Append(@, [type |-> "log", data |-> message])]
          ELSE cl[c]]

\* broadcastLogs, lines 61-68: send the message to every open client subscribed to the key.
fanOut(cl, sessionKey, message) ==
    [c \in DOMAIN cl |->
        IF cl[c].open /\ cl[c].sessionKey = sessionKey
        THEN [cl[c] EXCEPT !.recv = Append(@, [type |-> "log", data |-> message])]
        ELSE cl[c]]

RECURSIVE LogsAfter(_, _, _, _)
LogsAfter(logs, k, t, ms) ==
    IF ms = <<>> THEN logs
    ELSE LogsAfter(broadcastLogs(logs, k, t, Head(ms)), k, t, Tail(ms))

RECURSIVE ClientsAfter(_, _, _)
ClientsAfter(cl, k, ms) ==
    IF ms = <<>> THEN cl ELSE ClientsAfter(fanOut(cl, k, Head(ms)), k, Tail(ms))

\* The calls broadcastLogs(k, m) for each m of ms, in order, made by one callback.
Emit(k, ms) ==
    /\ sessionLogs' = LogsAfter(sessionLogs, k, now, ms)
    /\ wsClients' = ClientsAfter(wsClients, k, ms)
    /\ emitted' = ms

\* A callback that calls broadcastLogs nowhere.
NoEmit ==
    /\ emitted' = <<>>
    /\ UNCHANGED <<sessionLogs, wsClients>>

\* ------------------------------------------------------ the session registry
\* activeSessions.get(k)?.running
Running(AS, k) == Has(AS, k) /\ AS[k].running

\* The record /send stores, lines 91-99. The target descriptor and startTime are
\* written here and only read back by /status: they are left out.
NewSession(t) ==
    [running |-> TRUE, sentCount |-> 0, failedCount |-> 0, lastActivity |-> t]

\* The closure of sendMessages before /send has been called for the key.
\* pc: where sendMessages is; n: messages.length; sock: the socket of line 226; timers:
\* pending setTimeout(reconnect); reconnecting: reconnect calls between their awaits;
\* sinceOpen (not in the code): reconnect attempts made since a connection last opened.
NoEngine == [pc |-> "none", n |-> 0, reconnectAttempts |-> 0, sock |-> 0, timers |-> 0,
             reconnecting |-> 0, sinceOpen |-> 0]

\* A socket as makeWASocket returns it: not ended, no event emitted, no handler running.
NewSock(k) == [key |-> k, ended |-> FALSE, ev |-> "fresh", pc |-> "none", i |-> 0]

\* sock.end()
EndSock(ss, id) == [ss EXCEPT ![id].ended = TRUE]

\* A handle is open until end() is called on it or the transport reports it closed.
IsOpenSock(s) == ~socks[s].ended /\ socks[s].ev # "closed"
OpenSocks(k) == {s \in DOMAIN socks : socks[s].key = k /\ IsOpenSock(s)}

Tag(name, arg) == <<name, arg>>
Respond(k, status) == res' = [status |-> status, key |-> k]

\* -------------------------------------------------------------- POST /send
\* Lines 72-109, then sendMessages up to its first await (line 224).
PostSend(k, n) ==
    /\ eng[k].pc = "none"
    /\ activeSessions' = MapSet(activeSessions, k, NewSession(now))
    /\ sessionLogs' = MapSet(sessionLogs, k, <<>>)
    /\ eng' = [eng EXCEPT ![k] = [NoEngine EXCEPT !.pc = "init", !.n = n]]
    /\ Respond(k, 200)
    /\ emitted' = <<>>
    /\ UNCHANGED <<sessionConnections, wsClients, socks, now, stopped, dequeued,
                   permClosed, aux>>

PostStopLogsFirst(k) ==
    /\ Respond(k, IF Has(activeSessions, k) THEN 200 ELSE 404)
    /\ activeSessions' = IF Has(activeSessions, k)
                         THEN [activeSessions EXCEPT ![k].running = FALSE]
                         ELSE activeSessions
    /\ IF Has(sessionConnections, k)
       THEN /\ socks' = EndSock(socks, sessionConnections[k])
            /\ sessionConnections' = MapDelete(sessionConnections, k)
       ELSE UNCHANGED <<socks, sessionConnections>>
    /\ Emit(k, <<Tag("SYS_STOPPED", 0)>>)
    /\ stopped' = IF Has(activeSessions, k) THEN stopped \cup {k} ELSE stopped
    /\ UNCHANGED <<eng, now, dequeued, permClosed, aux>>

\* -------------------------------------------------------------- POST /stop
\* Lines 119-161.
PostStop(k) ==
    IF ~Has(activeSessions, k)
    THEN /\ Respond(k, 404)
         /\ NoEmit
         /\ UNCHANGED <<activeSessions, sessionConnections, socks, eng, now, stopped,
                        dequeued, permClosed, aux>>
    ELSE /\ activeSessions' = [activeSessions EXCEPT ![k].running = FALSE]
         /\ IF Has(sessionConnections, k)
            THEN /\ socks' = EndSock(socks, sessionConnections[k])
                 /\ sessionConnections' = MapDelete(sessionConnections, k)
            ELSE UNCHANGED <<socks, sessionConnections>>
         /\ Emit(k, <<Tag("SYS_STOPPED", 0)>>)
         /\ stopped' = stopped \cup {k}
         /\ Respond(k, 200)
         /\ UNCHANGED <<eng, now, dequeued, permClosed, aux>>

\* ------------------------------------------------------ GET /status/:key
\* Lines 163-192.
GetStatus(k) ==
    /\ Respond(k, IF Has(activeSessions, k) THEN 200 ELSE 404)
    /\ NoEmit
    /\ UNCHANGED <<activeSessions, sessionConnections, socks, eng, now, stopped,
                   dequeued, permClosed, aux>>

\* ------------------------------------------------------------- the sweep
sweepExpiredIgnoringRunning(AS, t) ==
    {k \in DOMAIN AS : (t - AS[k].lastActivity) > RetentionMs}

sweepExpiredAtRetention(AS, t) ==
    {k \in DOMAIN AS : ~AS[k].running /\ (t - AS[k].lastActivity) >= RetentionMs}

\* Lines 206-211: the keys the sweep deletes at time t.
sweepExpired(AS, t) ==
    {k \in DOMAIN AS : ~AS[k].running /\ (t - AS[k].lastActivity) > RetentionMs}

\* Lines 204-220, one run of the interval callback.
Sweep ==
    LET gone == sweepExpired(activeSessions, now)
    IN /\ activeSessions' = [k \in DOMAIN activeSessions \ gone |-> activeSessions[k]]
       /\ sessionLogs' = [k \in DOMAIN sessionLogs \ gone |-> sessionLogs[k]]
       /\ emitted' = <<>>
       /\ UNCHANGED <<res, sessionConnections, wsClients, socks, eng, now, stopped, dequeued,
                      permClosed, aux>>

\* Time passes.
Tick ==
    /\ now < MaxTicks * TickMs
    /\ now' = now + TickMs
    /\ NoEmit
    /\ UNCHANGED <<res, activeSessions, sessionConnections, socks, eng, stopped, dequeued,
                   permClosed, aux>>

\* ------------------------------------------------- sendMessages: first socket
\* Lines 224-236 and 359: the await of line 224 resolved and makeWASocket returned.
InitOk(k, cap) ==
    /\ eng[k].pc = "init"
    /\ Len(socks) < cap
    /\ LET id == Len(socks) + 1
       IN /\ socks' = Append(socks, NewSock(k))
          /\ sessionConnections' = MapSet(sessionConnections, k, id)
          /\ eng' = [eng EXCEPT ![k].pc = "up", ![k].sock = id]
    /\ NoEmit
    /\ UNCHANGED <<res, activeSessions, now, stopped, dequeued, permClosed, aux>>

\* Lines 360-374: useMultiFileAuthState or makeWASocket threw.
InitFail(k) ==
    /\ eng[k].pc = "init"
    /\ Emit(k, <<Tag("ERR_INIT", 0)>>)
    /\ activeSessions' = IF Has(activeSessions, k)
                         THEN [activeSessions EXCEPT ![k].running = FALSE]
                         ELSE activeSessions
    /\ eng' = [eng EXCEPT ![k].pc = "failed"]
    /\ UNCHANGED <<res, sessionConnections, socks, now, stopped, dequeued, permClosed, aux>>

\* ------------------------------------------------------------- reconnect
reconnectGuardNoRunning(k) ==
    ~(eng[k].reconnectAttempts >= maxReconnectAttempts)

\* Line 243, negated: the reconnect goes ahead.
reconnectGuard(k) ==
    Running(activeSessions, k) /\ ~(eng[k].reconnectAttempts >= maxReconnectAttempts)

\* Lines 242-251: a timer set by line 269 or 349 fires; runs to the await of sock.end(),
\* where sock is the socket of line 226.
ReconnectFire(k) ==
    /\ eng[k].timers > 0
    /\ IF reconnectGuard(k)
       THEN /\ eng' = [eng EXCEPT ![k].timers = @ - 1, ![k].reconnectAttempts = @ + 1,
                                  ![k].reconnecting = @ + 1, ![k].sinceOpen = @ + 1]
            /\ Emit(k, <<Tag("SYS_RECONNECTING", eng[k].reconnectAttempts + 1)>>)
            /\ socks' = EndSock(socks, eng[k].sock)
       ELSE /\ eng' = [eng EXCEPT ![k].timers = @ - 1]
            /\ NoEmit
            /\ UNCHANGED socks
    /\ UNCHANGED <<res, activeSessions, sessionConnections, now, stopped, dequeued,
                   permClosed, aux>>

\* Lines 252-266: the new socket is created, installed and given its handlers.
ReconnectOk(k, cap) ==
    /\ eng[k].reconnecting > 0
    /\ Len(socks) < cap
    /\ LET id == Len(socks) + 1
       IN /\ socks' = Append(socks, NewSock(k))
          /\ sessionConnections' = MapSet(sessionConnections, k, id)
    /\ Emit(k, <<Tag("SYS_RECONNECTED", 0)>>)
    /\ eng' = [eng EXCEPT ![k].reconnecting = @ - 1, ![k].reconnectAttempts = 0]
    /\ UNCHANGED <<res, activeSessions, now, stopped, dequeued, permClosed, aux>>

retryTimersTwice(timers) == timers + 2

\* Line 269: the catch block sets one timer for the next attempt.
retryTimers(timers) == timers + 1

\* Lines 267-270: sock.end(), useMultiFileAuthState or makeWASocket threw.
ReconnectFail(k) ==
    /\ eng[k].reconnecting > 0
    /\ Emit(k, <<Tag("ERR_RECONNECT", 0)>>)
    /\ eng' = [eng EXCEPT ![k].reconnecting = @ - 1, ![k].timers = retryTimers(@)]
    /\ UNCHANGED <<res, activeSessions, sessionConnections, socks, now, stopped, dequeued,
                   permClosed, aux>>

\* --------------------------------------------- connection.update: the loop
\* In the operators below s is the socket whose handler runs, ss the sockets, AS the
\* registry and pre the messages logged, each as the callback has them so far.

\* Lines 328-344, reached when the for loop of line 290 is left.
Finish(s, ss, AS, pre) ==
    LET k == socks[s].key
    IN IF Running(AS, k)
       THEN /\ activeSessions' = [AS EXCEPT ![k].running = FALSE]
            /\ socks' = IF Has(sessionConnections, k)
                        THEN EndSock([ss EXCEPT ![s].pc = "done"], sessionConnections[k])
                        ELSE [ss EXCEPT ![s].pc = "done"]
            /\ sessionConnections' = MapDelete(sessionConnections, k)
            /\ Emit(k, pre \o <<Tag("SYS_COMPLETED", 0)>>)
       ELSE /\ activeSessions' = AS
            /\ socks' = [ss EXCEPT ![s].pc = "done"]
            /\ UNCHANGED sessionConnections
            /\ Emit(k, pre)

\* Lines 290-298: the loop takes message i if there is one and the session is running,
\* calls socket.sendMessage and awaits it; otherwise the loop is left.
Advance(s, ss, i, AS, pre) ==
    LET k == socks[s].key
    IN IF i <= eng[k].n /\ Running(AS, k)
       THEN /\ activeSessions' = AS
            /\ socks' = [ss EXCEPT ![s].pc = "send", ![s].i = i]
            /\ dequeued' = [dequeued EXCEPT ![k] = @ + 1]
            /\ Emit(k, pre)
            /\ UNCHANGED sessionConnections
       ELSE /\ Finish(s, ss, AS, pre)
            /\ UNCHANGED dequeued

\* Lines 277-279: an update carrying a QR code.
QrEvent(s) ==
    /\ socks[s].ev = "fresh"
    /\ Emit(socks[s].key, <<Tag("SYS_QR", 0)>>)
    /\ UNCHANGED <<res, activeSessions, sessionConnections, socks, eng, now, stopped,
                   dequeued, permClosed, aux>>

\* Lines 281-298: connection === 'open'. session.lastActivity of line 286 throws when
\* the sweep has removed the session, which ends the handler.
OpenEvent(s) ==
    LET k == socks[s].key
    IN /\ socks[s].ev = "fresh"
       /\ IF Has(activeSessions, k)
          THEN Advance(s, [socks EXCEPT ![s].ev = "open"], 1,
                       [activeSessions EXCEPT ![k].lastActivity = now],
                       <<Tag("SYS_CONNECTED", 0)>>)
          ELSE /\ socks' = [socks EXCEPT ![s].ev = "open", ![s].pc = "dead"]
               /\ Emit(k, <<Tag("SYS_CONNECTED", 0)>>)
               /\ UNCHANGED <<activeSessions, sessionConnections, dequeued>>
       /\ eng' = [eng EXCEPT ![k].sinceOpen = 0]
       /\ UNCHANGED <<res, now, stopped, permClosed, aux>>

onSendSuccessBoth(session, t) ==
    [session EXCEPT !.sentCount = @ + 1, !.failedCount = @ + 1, !.lastActivity = t]

onSendSuccessResume(session, t) ==
    [session EXCEPT !.sentCount = @ + 1, !.lastActivity = t, !.running = TRUE]

\* Lines 301-304.
onSendSuccess(session, t) == [session EXCEPT !.sentCount = @ + 1, !.lastActivity = t]

onSendFailureStops(session, t) ==
    [session EXCEPT !.failedCount = @ + 1, !.lastActivity = t, !.running = FALSE]

\* Lines 311-314.
onSendFailure(session, t) == [session EXCEPT !.failedCount = @ + 1, !.lastActivity = t]

\* Lines 298-308: sendMessage resolved; runs to the await of delay(delayMs). When the
\* sweep has removed the session, line 302 throws, the catch block's line 312 throws
\* again and the handler ends.
SendResolve(s) ==
    LET k == socks[s].key
    IN /\ socks[s].pc = "send"
       /\ IF Has(activeSessions, k)
          THEN /\ activeSessions' =
                    [activeSessions EXCEPT ![k] = onSendSuccess(@, now)]
               /\ socks' = [socks EXCEPT ![s].pc = "delay"]
               /\ Emit(k, <<Tag("SUCCESS", socks[s].i)>>)
          ELSE /\ socks' = [socks EXCEPT ![s].pc = "dead"]
               /\ NoEmit
               /\ UNCHANGED activeSessions
       /\ UNCHANGED <<res, sessionConnections, eng, now, stopped, dequeued, permClosed, aux>>

\* Line 319: the error message names the connection or the socket.
isConnectionError(kind) == kind = "connection"

\* Lines 309-324: sendMessage rejected with an error of the given kind; runs to the
\* await of delay(5000) of line 320 or of line 324.
SendReject(s, kind) ==
    LET k == socks[s].key
    IN /\ socks[s].pc = "send"
       /\ IF Has(activeSessions, k)
          THEN /\ activeSessions' =
                    [activeSessions EXCEPT ![k] = onSendFailure(@, now)]
               /\ socks' = [socks EXCEPT ![s].pc = IF isConnectionError(kind)
                                                   THEN "cooldownBreak" ELSE "cooldown"]
               /\ Emit(k, <<Tag("ERR_SEND", IF isConnectionError(kind) THEN 1 ELSE 0)>>)
          ELSE /\ socks' = [socks EXCEPT ![s].pc = "dead"]
               /\ NoEmit
               /\ UNCHANGED activeSessions
       /\ UNCHANGED <<res, sessionConnections, eng, now, stopped, dequeued, permClosed, aux>>

\* Line 308 or line 324 resolved: the loop goes on to the next message.
DelayDone(s) ==
    /\ socks[s].pc \in {"delay", "cooldown"}
    /\ Advance(s, socks, socks[s].i + 1, activeSessions, <<>>)
    /\ UNCHANGED <<res, eng, now, stopped, permClosed, aux>>

\* Lines 320-321 resolved: break, then the completion check of line 329.
BreakDone(s) ==
    /\ socks[s].pc = "cooldownBreak"
    /\ Finish(s, socks, activeSessions, <<>>)
    /\ UNCHANGED <<res, eng, now, stopped, dequeued, permClosed, aux>>

\* Line 346.
shouldReconnect(status) == status # StatusUnauthorized

\* Lines 345-353: connection === 'close' with lastDisconnect.error.output.statusCode.
CloseEvent(s, status) ==
    LET k == socks[s].key
    IN /\ socks[s].ev \in {"fresh", "open"}
       /\ socks' = [socks EXCEPT ![s].ev = "closed"]
       /\ IF shouldReconnect(status) /\ Running(activeSessions, k)
          THEN /\ Emit(k, <<Tag("SYS_CLOSED_RECONNECTING", 0)>>)
               /\ eng' = [eng EXCEPT ![k].timers = @ + 1]
          ELSE /\ Emit(k, <<Tag("ERR_CLOSED_PERMANENT", 0)>>)
               /\ UNCHANGED eng
       /\ permClosed' = IF status = StatusUnauthorized THEN permClosed \cup {k}
                        ELSE permClosed
       /\ UNCHANGED <<res, activeSessions, sessionConnections, now, stopped, dequeued, aux>>

\* ------------------------------------------------ the WebSocket observers
\* A client of wss.clients that has sent nothing yet.
NoClient == [open |-> TRUE, sessionKey |-> NoKey, recv |-> <<>>]

\* Lines 33-49: a {type: 'subscribe', sessionKey: k} message from client c.
Subscribe(c, k) ==
    /\ wsClients[c].open
    /\ wsClients' =
          IF Has(sessionLogs, k)
          THEN [wsClients EXCEPT
                  ![c].sessionKey = k,
                  ![c].recv = Append(@, [type |-> "logs", data |-> sessionLogs[k]])]
          ELSE wsClients
    /\ subMark' =
          [subMark EXCEPT ![c] =
              IF Has(sessionLogs, k)
              THEN [count |-> @.count + 1, frames |-> Len(wsClients[c].recv),
                    hist |-> Len(history[k])]
              ELSE [@ EXCEPT !.count = @ + 1]]
    /\ emitted' = <<>>
    /\ UNCHANGED <<activeSessions, sessionLogs, sessionConnections, socks, eng, now, res,
                   stopped, dequeued, permClosed, history, body, hatersName, messages>>

\* The client's socket closes: its readyState is no longer OPEN (line 62).
ClientClose(c) ==
    /\ wsClients[c].open
    /\ wsClients' = [wsClients EXCEPT ![c].open = FALSE]
    /\ emitted' = <<>>
    /\ UNCHANGED <<activeSessions, sessionLogs, sessionConnections, socks, eng, now, res,
                   stopped, dequeued, permClosed, aux>>

\* Some callback of the session's engine calls broadcastLogs(k, message).
LogEvent(k, message) ==
    /\ eng[k].pc # "none"
    /\ Emit(k, <<message>>)
    /\ history' = [history EXCEPT ![k] = Append(@, LogLine(now, message))]
    /\ UNCHANGED <<activeSessions, sessionConnections, socks, eng, now, res, stopped,
                   dequeued, permClosed, subMark, body, hatersName, messages>>

\* ------------------------------------------------ /send: the message queue
Whitespace == {" ", "\t", "\r", "\n"}

\* String.prototype.split('\n')
RECURSIVE split(_)
split(str) ==
    IF \A i \in 1..Len(str) : str[i] # "\n"
    THEN <<str>>
    ELSE LET i == CHOOSE j \in 1..Len(str) :
                     str[j] = "\n" /\ \A h \in 1..(j - 1) : str[h] # "\n"
         IN <<SubSeq(str, 1, i - 1)>> \o split(SubSeq(str, i + 1, Len(str)))

\* String.prototype.trim()
RECURSIVE trim(_)
trim(str) ==
    IF str = <<>> THEN str
    ELSE IF Head(str) \in Whitespace THEN trim(Tail(str))
    ELSE IF str[Len(str)] \in Whitespace THEN trim(SubSeq(str, 1, Len(str) - 1))
    ELSE str

\* Line 87: `${hatersName} ${line.trim()}`
prefixed(name, line) == name \o <<" ">> \o trim(line)

\* Lines 85-88: split, then map, then filter(line => line) on the mapped lines.
buildMessages(file, name) ==
    LET lines == split(file)
        mapped == [i \in 1..Len(lines) |-> prefixed(name, lines[i])]
    IN SelectSeq(mapped, LAMBDA line : line # <<>>)

\* Lines 74-88 of /send, the part that builds the queue.
BuildQueue ==
    /\ messages = <<>>
    /\ messages' = buildMessages(body, hatersName)
    /\ UNCHANGED <<activeSessions, sessionLogs, sessionConnections, wsClients, socks, eng,
                   now, res, emitted, stopped, dequeued, permClosed, history, subMark,
                   body, hatersName>>

\* ------------------------------------------------------ the specifications
InitState ==
    /\ activeSessions = EmptyMap
    /\ sessionLogs = EmptyMap
    /\ sessionConnections = EmptyMap
    /\ wsClients = [c \in Clients |-> NoClient]
    /\ socks = <<>>
    /\ eng = [k \in Keys |-> NoEngine]
    /\ now = 0
    /\ res = [status |-> 0, key |-> NoKey]
    /\ emitted = <<>>
    /\ stopped = {}
    /\ dequeued = [k \in Keys |-> 0]
    /\ permClosed = {}
    /\ history = [k \in Keys |-> <<>>]
    /\ subMark = [c \in Clients |-> [count |-> 0, frames |-> 0, hist |-> 0]]

Init ==
    /\ InitState
    /\ body = <<>>
    /\ hatersName = <<>>
    /\ messages = <<>>

\* One session and its delivery engine, with the sweep and the clock.
Next ==
    \/ \E n \in 1..MaxMsgs : PostSend(EngineKey, n)
    \/ PostStop(EngineKey)
    \/ Sweep
    \/ Tick
    \/ InitOk(EngineKey, MaxSocks)
    \/ InitFail(EngineKey)
    \/ ReconnectFire(EngineKey)
    \/ ReconnectOk(EngineKey, MaxSocks)
    \/ ReconnectFail(EngineKey)
    \/ \E s \in DOMAIN socks : QrEvent(s)
    \/ \E s \in DOMAIN socks : OpenEvent(s)
    \/ \E s \in DOMAIN socks : SendResolve(s)
    \/ \E s \in DOMAIN socks, kind \in {"connection", "other"} : SendReject(s, kind)
    \/ \E s \in DOMAIN socks : DelayDone(s)
    \/ \E s \in DOMAIN socks : BreakDone(s)
    \/ \E s \in DOMAIN socks, status \in {StatusUnauthorized, StatusOther} :
          CloseEvent(s, status)

Spec == Init /\ [][Next]_vars

\* One session with a queue of one message and up to MaxHandles sockets: the
\* connection handles over repeated closes and reconnects.
NextHandles ==
    \/ PostSend(EngineKey, 1)
    \/ PostStop(EngineKey)
    \/ InitOk(EngineKey, MaxHandles)
    \/ InitFail(EngineKey)
    \/ ReconnectFire(EngineKey)
    \/ ReconnectOk(EngineKey, MaxHandles)
    \/ ReconnectFail(EngineKey)
    \/ \E s \in DOMAIN socks : QrEvent(s)
    \/ \E s \in DOMAIN socks : OpenEvent(s)
    \/ \E s \in DOMAIN socks : SendResolve(s)
    \/ \E s \in DOMAIN socks, kind \in {"connection", "other"} : SendReject(s, kind)
    \/ \E s \in DOMAIN socks : DelayDone(s)
    \/ \E s \in DOMAIN socks : BreakDone(s)
    \/ \E s \in DOMAIN socks, status \in {StatusUnauthorized, StatusOther} :
          CloseEvent(s, status)

SpecHandles == Init /\ [][NextHandles]_vars

\* One session with a queue of ScenarioMsgs messages on its first socket.
NextScenario ==
    \/ PostSend(EngineKey, ScenarioMsgs)
    \/ InitOk(EngineKey, 1)
    \/ ReconnectFire(EngineKey)
    \/ ReconnectFail(EngineKey)
    \/ \E s \in DOMAIN socks : OpenEvent(s)
    \/ \E s \in DOMAIN socks : SendResolve(s)
    \/ \E s \in DOMAIN socks, kind \in {"connection", "other"} : SendReject(s, kind)
    \/ \E s \in DOMAIN socks : DelayDone(s)
    \/ \E s \in DOMAIN socks : BreakDone(s)
    \/ \E s \in DOMAIN socks, status \in {StatusUnauthorized, StatusOther} :
          CloseEvent(s, status)

SpecScenario == Init /\ [][NextScenario]_vars

\* The registry of several sessions under the HTTP handlers, the sweep and the clock;
\* a session gets its first socket, which reports no event.
NextRegistry ==
    \/ \E k \in Keys : PostSend(k, 1)
    \/ \E k \in Keys \cup {UnknownKey} : PostStop(k)
    \/ \E k \in Keys \cup {UnknownKey} : GetStatus(k)
    \/ \E k \in Keys : InitFail(k)
    \/ \E k \in Keys : InitOk(k, MaxSocks)
    \/ Sweep
    \/ Tick

SpecRegistry == Init /\ [][NextRegistry]_vars

\* The log channel: sessions, broadcastLogs calls and observers.
LogMessages == {Tag("SYS_CONNECTED", 0), Tag("SUCCESS", 1)}
RECURSIVE Total(_, _)
Total(f, S) ==
    IF S = {} THEN 0 ELSE LET x == CHOOSE y \in S : TRUE IN f[x] + Total(f, S \ {x})
Appended == Total([k \in Keys |-> Len(history[k])], Keys)
Subscribed == Total([c \in Clients |-> subMark[c].count], Clients)

NextLog ==
    \/ \E k \in Keys : PostSend(k, 1)
    \/ \E k \in Keys, m \in LogMessages : Appended < MaxAppends /\ LogEvent(k, m)
    \/ \E c \in Clients, k \in Keys \cup {UnknownKey} :
          Subscribed < MaxSubscribes /\ Subscribe(c, k)
    \/ \E c \in Clients : ClientClose(c)

SpecLog == Init /\ [][NextLog]_vars

\* The queue /send builds from an uploaded file and a prefix.
Alphabet == {"a", " ", "\n"}
ScenarioBody == <<"a", "\n", "b", "\n", "\n", "c">>
Payloads == UNION {[1..n -> Alphabet] : n \in 0..MaxLen} \cup {ScenarioBody}
Prefixes == {<<"X">>, <<>>}

InitQueue ==
    /\ InitState
    /\ body \in Payloads
    /\ hatersName \in Prefixes
    /\ messages = <<>>

NextQueue == BuildQueue

SpecQueue == InitQueue /\ [][NextQueue]_vars

\* ================================================================ claims
\* The sends a session has in flight: handlers awaiting sendMessage (line 298).
InFlight(k) == Cardinality({s \in DOMAIN socks : socks[s].key = k /\ socks[s].pc = "send"})

\* C1: once /stop has been processed for a session, running is false and neither
\* sentCount nor failedCount changes in any later step, also when a sendMessage call
\* was in flight at the stop and resolves or rejects afterwards.
C1_StopFreezesCounters ==
    [][\A k \in Keys :
          /\ (k \in stopped' /\ Has(activeSessions', k)) => ~activeSessions'[k].running
          /\ (k \in stopped /\ Has(activeSessions, k) /\ Has(activeSessions', k)) =>
                /\ activeSessions'[k].sentCount = activeSessions[k].sentCount
                /\ activeSessions'[k].failedCount = activeSessions[k].failedCount]_vars

\* C2: no more than maxReconnectAttempts reconnect attempts are made without an
\* intervening connection-open event.
C2_AttemptsBoundedBetweenOpens ==
    \A k \in Keys : eng[k].sinceOpen <= maxReconnectAttempts

\* C3: with 3 queued messages of which the first two were sent and the third failed
\* with a connection error, leaving the delivery loop keeps running true, logs no
\* completion and keeps the connection entry.
C3_ConnectionErrorAwaitsReconnect ==
    [][\A s \in DOMAIN socks :
          LET k == socks[s].key
          IN (/\ socks[s].pc = "cooldownBreak"
              /\ socks'[s].pc = "done"
              /\ eng[k].n = 3
              /\ socks[s].i = 3
              /\ Running(activeSessions, k)
              /\ activeSessions[k].sentCount = 2
              /\ activeSessions[k].failedCount = 1)
             => /\ Running(activeSessions', k)
                /\ Has(sessionConnections, k) => Has(sessionConnections', k)
                /\ \A j \in 1..Len(emitted') : emitted'[j] # Tag("SYS_COMPLETED", 0)]_vars

\* The queue the claim describes: one entry '<prefix> <trimmed line>' for each
\* non-blank line of the payload, in payload order.
nonBlankLines(file) == SelectSeq(split(file), LAMBDA line : trim(line) # <<>>)
expectedQueue(file, name) ==
    LET lines == nonBlankLines(file)
    IN [i \in 1..Len(lines) |-> name \o <<" ">> \o trim(lines[i])]

\* C4: the queue built from a payload and a prefix holds exactly one entry
\* '<prefix> <trimmed line>' per non-blank line, in order, and none for a blank line.
C4_QueueDropsBlankLines ==
    messages # <<>> => messages = expectedQueue(body, hatersName)

\* C5: sentCount and failedCount never decrease, and sentCount + failedCount never
\* exceeds the number of messages the delivery loops have taken from the queue: every
\* attempt that has ended has incremented exactly one of the two counters once.
C5_CountersAccount ==
    /\ [](\A k \in DOMAIN activeSessions :
            /\ activeSessions[k].sentCount + activeSessions[k].failedCount <= dequeued[k]
            /\ activeSessions[k].sentCount + activeSessions[k].failedCount + InFlight(k)
                  = dequeued[k])
    /\ [][\A k \in DOMAIN activeSessions \cap DOMAIN activeSessions' :
            /\ activeSessions'[k].sentCount >= activeSessions[k].sentCount
            /\ activeSessions'[k].failedCount >= activeSessions[k].failedCount
            /\ (activeSessions'[k].sentCount + activeSessions'[k].failedCount)
                  - (activeSessions[k].sentCount + activeSessions[k].failedCount) <= 1]_vars

\* C5 witness: a stopped session that has sent and failed messages over two sockets.
C5_Witness ==
    /\ Has(activeSessions, EngineKey)
    /\ EngineKey \in stopped
    /\ activeSessions[EngineKey].sentCount >= 1
    /\ activeSessions[EngineKey].failedCount >= 1
    /\ Len(socks) = 2
    /\ socks[2].pc = "done"

\* C6: a log buffer never holds more than LogCap entries, and appending to a full
\* buffer removes the oldest entry and keeps the others in order, the new one last.
C6_LogBufferBounded ==
    /\ [](\A k \in DOMAIN sessionLogs : Len(sessionLogs[k]) <= LogCap)
    /\ [][\A k \in DOMAIN sessionLogs :
            (Len(sessionLogs[k]) = LogCap /\ Len(history'[k]) = Len(history[k]) + 1)
            => sessionLogs'[k] =
                  Append(Tail(sessionLogs[k]), history'[k][Len(history'[k])])]_vars

\* C6 witness: a full buffer that has evicted an entry.
C6_Witness ==
    \E k \in DOMAIN sessionLogs :
        Len(sessionLogs[k]) = LogCap /\ Len(history[k]) > LogCap

\* The last n entries of a sequence.
LastOf(seq, n) == SubSeq(seq, Len(seq) - n + 1, Len(seq))
Min(a, b) == IF a <= b THEN a ELSE b

\* C7: an open observer subscribed to a session has received, since its subscribe
\* message, the buffer as it was then in one frame, and after it one frame for each
\* entry appended since, in append order, none missing and none twice.
C7_SnapshotThenStream ==
    \A c \in Clients :
        (wsClients[c].open /\ wsClients[c].sessionKey \in Keys) =>
            LET k == wsClients[c].sessionKey
                recv == wsClients[c].recv
                f == subMark[c].frames
                h == subMark[c].hist
                live == SubSeq(history[k], h + 1, Len(history[k]))
            IN /\ Len(recv) = f + 1 + Len(live)
               /\ recv[f + 1].type = "logs"
               /\ recv[f + 1].data = LastOf(SubSeq(history[k], 1, h), Min(h, LogCap))
               /\ \A j \in 1..Len(live) :
                     /\ recv[f + 1 + j].type = "log"
                     /\ recv[f + 1 + j].data = live[j][2]

\* C7 witness: two observers of one session, subscribed at different times, the later
\* one after an entry was logged, and an entry logged after both.
C7_Witness ==
    \E k \in Keys :
        /\ wsClients[1].open /\ wsClients[1].sessionKey = k
        /\ wsClients[2].open /\ wsClients[2].sessionKey = k
        /\ subMark[1].hist = 0
        /\ subMark[2].hist >= 1
        /\ Len(history[k]) > subMark[2].hist

\* C8: a sweep removes a session, and its log buffer with it, only if the session is
\* not running and its lastActivity lies more than RetentionMs back; every other
\* session, a running one of any age included, is left as it is.
C8_SweepRemovesOnlyStale ==
    [][LET gone == DOMAIN activeSessions \ DOMAIN activeSessions'
       IN /\ \A k \in gone :
                /\ ~activeSessions[k].running
                /\ now - activeSessions[k].lastActivity > RetentionMs
                /\ ~Has(sessionLogs', k)
          /\ gone # {} =>
                \A k \in DOMAIN activeSessions' :
                    /\ Has(activeSessions, k)
                    /\ activeSessions'[k] = activeSessions[k]
                    /\ Has(sessionLogs, k) =>
                          (Has(sessionLogs', k) /\ sessionLogs'[k] = sessionLogs[k])]_vars

\* C8 witness: one session has been swept while a running one two hours old remains.
C8_Witness ==
    \E k1, k2 \in Keys :
        /\ eng[k1].pc # "none" /\ ~Has(activeSessions, k1)
        /\ Has(activeSessions, k2) /\ activeSessions[k2].running
        /\ now - activeSessions[k2].lastActivity > RetentionMs

\* C9: a session never has more than one open connection handle: when reconnect
\* installs a new handle, every earlier one has been closed.
C9_OneOpenHandle ==
    \A k \in Keys : Cardinality(OpenSocks(k)) <= 1

\* C9 witness: the third handle is installed and open, the second one was closed by
\* the transport alone (reconnect called end() on the first).
C9_Witness ==
    /\ Len(socks) = 3
    /\ IsOpenSock(3)
    /\ socks[2].ev = "closed" /\ ~socks[2].ended
    /\ Has(sessionConnections, EngineKey) /\ sessionConnections[EngineKey] = 3

\* C10: after a connection of a session closed with status 401 the session is in a
\* terminal failed state: running is false in the registry.
C10_AuthRejectionStopsSession ==
    \A k \in permClosed : Has(activeSessions, k) => ~activeSessions[k].running

\* C11: once running of a session is false it is never true again, whatever
\* operation follows (stop, completion, initialization failure, reconnect, events).
C11_RunningNeverResumes ==
    [][\A k \in DOMAIN activeSessions \cap DOMAIN activeSessions' :
          ~activeSessions[k].running => ~activeSessions'[k].running]_vars

\* C11 witness: a session stopped with a send in flight, whose send then resolved and
\* whose loop went on to its end, is still not running.
C11_Witness ==
    /\ Has(activeSessions, EngineKey)
    /\ ~activeSessions[EngineKey].running
    /\ EngineKey \in stopped
    /\ dequeued[EngineKey] = 1
    /\ activeSessions[EngineKey].sentCount = 1
    /\ \E s \in DOMAIN socks : socks[s].pc = "done"

\* C12: a stop or status request for an id that is not in the registry is answered
\* with 404 and changes no registry entry, log buffer or connection entry.
C12_UnknownIdChangesNothing ==
    [][res' # res =>
          /\ ~Has(activeSessions', res'.key) => res'.status = 404
          /\ res'.status = 404 =>
                /\ ~Has(activeSessions, res'.key)
                /\ UNCHANGED <<activeSessions, sessionLogs, sessionConnections, socks,
                               wsClients>>]_vars

\* C12 witness: a request for an id no session ever had was answered with 404 while
\* the registry holds a session.
C12_Witness ==
    /\ res.status = 404
    /\ res.key = UnknownKey
    /\ DOMAIN activeSessions # {}
    /\ DOMAIN sessionLogs = DOMAIN activeSessions
    /\ DOMAIN sessionConnections # {}

\* The callback of this step passed the message to broadcastLogs.
Logged(message) == \E j \in 1..Len(emitted') : emitted'[j] = message
LoggedKind(names) == \E j \in 1..Len(emitted') : emitted'[j][1] \in names

\* C13: a delivery loop that has attempted every queued message while running is
\* still true completes the session (running false, completion logged, the current
\* handle ended and its connection entry removed), and a session is marked completed
\* only when its whole queue has been attempted.
C13_CompletionIffQueueAttempted ==
    [][\A s \in DOMAIN socks :
          LET k == socks[s].key
          IN /\ (/\ socks[s].pc \in {"delay", "cooldown"}
                 /\ socks'[s].pc = "done"
                 /\ socks[s].i = eng[k].n
                 /\ Running(activeSessions, k))
                => /\ ~Running(activeSessions', k)
                   /\ Logged(Tag("SYS_COMPLETED", 0))
                   /\ ~Has(sessionConnections', k)
                   /\ Has(sessionConnections, k) => socks'[sessionConnections[k]].ended
             /\ (/\ socks[s].pc # "done"
                 /\ socks'[s].pc = "done"
                 /\ Logged(Tag("SYS_COMPLETED", 0)))
                => dequeued[k] >= eng[k].n]_vars

\* C14: within a session at most one delivery attempt is in progress and attempts
\* follow queue order: an attempt begins only when no other is in flight, and it is
\* the attempt for the message after the last one attempted.
C14_AttemptsSequential ==
    [][\A s \in DOMAIN socks :
          LET k == socks[s].key
          IN (socks[s].pc # "send" /\ socks'[s].pc = "send")
             => /\ InFlight(k) = 0
                /\ socks'[s].i = dequeued[k] + 1]_vars

\* C15: after a session has been stopped by the user no delivery-progress entry
\* (sent, failed to send, completed) is appended to its log.
C15_NoProgressLogsAfterStop ==
    [][\A k \in stopped :
          k = EngineKey => ~LoggedKind({"SUCCESS", "ERR_SEND", "SYS_COMPLETED"})]_vars

\* C16: a send failure that is no connection error is not fatal: failedCount goes up
\* by one, sentCount and running are left as they are, and when the pause is over the
\* loop attempts the next queued message on the same socket if the session is running.
C16_SendFailureNotFatal ==
    [][\A s \in DOMAIN socks :
          LET k == socks[s].key
          IN /\ (/\ socks[s].pc = "send"
                 /\ socks'[s].pc # "send"
                 /\ Has(activeSessions, k)
                 /\ Logged(Tag("ERR_SEND", 0)))
                => /\ Has(activeSessions', k)
                   /\ activeSessions'[k].failedCount = activeSessions[k].failedCount + 1
                   /\ activeSessions'[k].sentCount = activeSessions[k].sentCount
                   /\ activeSessions'[k].running = activeSessions[k].running
                   /\ socks'[s].pc = "cooldown"
                   /\ socks'[s].i = socks[s].i
             /\ (/\ socks[s].pc = "cooldown"
                 /\ socks'[s].pc # "cooldown"
                 /\ socks[s].i < eng[k].n
                 /\ Running(activeSessions, k))
                => /\ socks'[s].pc = "send"
                   /\ socks'[s].i = socks[s].i + 1
                   /\ Running(activeSessions', k)]_vars

\* C16 witness: the first message failed with an error that is no connection error
\* and the same socket's loop is attempting the second one, the session running.
C16_Witness ==
    /\ Running(activeSessions, EngineKey)
    /\ activeSessions[EngineKey].failedCount = 1
    /\ activeSessions[EngineKey].sentCount = 0
    /\ dequeued[EngineKey] = 2
    /\ Len(socks) = 1
    /\ socks[1].pc = "send"
    /\ socks[1].i = 2

\* C17: when a backoff timer fires after the session was stopped, no reconnect
\* attempt is logged or started and no socket is created or installed.
C17_StopCancelsBackoff ==
    [][\A k \in stopped :
          (k \in Keys /\ eng'[k].timers < eng[k].timers)
          => /\ ~LoggedKind({"SYS_RECONNECTING", "SYS_RECONNECTED"})
             /\ eng'[k].reconnecting = eng[k].reconnecting
             /\ eng'[k].reconnectAttempts = eng[k].reconnectAttempts
             /\ UNCHANGED <<socks, sessionConnections, sessionLogs>>]_vars

\* C17 witness: the connection closed and a reconnect was scheduled, then the session
\* was stopped, and the timer has fired since.
C17_Witness ==
    /\ EngineKey \in stopped
    /\ eng[EngineKey].timers = 0
    /\ eng[EngineKey].reconnecting = 0
    /\ eng[EngineKey].sinceOpen = 0
    /\ Len(socks) = 1
    /\ Has(sessionLogs, EngineKey)
    /\ \E i \in 1..Len(sessionLogs[EngineKey]) :
          /\ i < Len(sessionLogs[EngineKey])
          /\ sessionLogs[EngineKey][i][2] = Tag("SYS_CLOSED_RECONNECTING", 0)
          /\ sessionLogs[EngineKey][i + 1][2] = Tag("SYS_STOPPED", 0)

\* C18: each queued message is attempted at most once over the session's lifetime:
\* no more attempts are begun than the queue is long, so sentCount + failedCount
\* never exceeds the queue length.
C18_EachMessageAttemptedOnce ==
    \A k \in Keys :
        /\ dequeued[k] <= eng[k].n
        /\ Has(activeSessions, k) =>
              activeSessions[k].sentCount + activeSessions[k].failedCount <= eng[k].n

\* C19: after a stop request has been processed the session has no open connection
\* handle in any later state.
C19_NoHandleAfterStop ==
    \A k \in stopped : OpenSocks(k) = {}

\* C20: every session id with a log buffer or a connection entry is in the registry.
C20_BuffersWithinRegistry ==
    /\ DOMAIN sessionLogs \subseteq DOMAIN activeSessions
    /\ DOMAIN sessionConnections \subseteq DOMAIN activeSessions

====
